---- MODULE Spec2Model ----
(***************************************************************************)
(* Model of get_commits (src-tauri/src/git.rs): the ref index built from   *)
(* the reference stream and HEAD, and the history simplification of the    *)
(* loaded commit window.                                                   *)
(*                                                                         *)
(* Commit ids are modelled as integers; the order on integers stands for   *)
(* the lexicographic order of equal-length hex strings.  The commit at     *)
(* position i of the window has oid i, ids above the window length are     *)
(* commits that were not loaded.  CommitInfo keeps the fields the          *)
(* algorithm reads (oid, parents, refs); author, email, date and message   *)
(* are copied through unchanged and are left out.                          *)
(***************************************************************************)
EXTENDS Integers, Sequences, FiniteSets, TLC

\* Bounds of the model.
MaxLen == 3        \* commits in the loaded window (the code's cap is 2000)
MaxParents == 2    \* parents of one commit
MaxBack == 1       \* parent links of a window that point at the commit itself or at an earlier one
MaxRefs == 2       \* references in the reference stream
MaxTargets == 2    \* distinct commits the references and HEAD point at

VARIABLES
  pc,                 \* position in get_commits
  references,         \* the reference stream of the repository (input)
  head,               \* what repo.head() resolves to (input)
  ri,                 \* number of references already consumed
  ref_map,            \* HashMap<String, Vec<RefInfo>>
  relevant_oids,      \* HashSet<String>
  all_commits,        \* Vec<CommitInfo>: the loaded window
  simplified_commits, \* Vec<CommitInfo> built by the simplification loop
  walks,              \* one record per ancestor walk of the loop at lines 131-163
  result              \* the Vec returned by get_commits

vars == <<pc, references, head, ri, ref_map, relevant_oids, all_commits,
          simplified_commits, walks, result>>

----------------------------------------------------------------------------
\* Sequence helpers

Range(s) == {s[k] : k \in 1..Len(s)}

RECURSIVE Concat(_)
Concat(ss) == IF ss = <<>> THEN <<>> ELSE Head(ss) \o Concat(Tail(ss))

SeqsUpTo(S, n) == UNION {[1..k -> S] : k \in 0..n}

\* Vec::sort on ids (insertion into a sorted prefix)
RECURSIVE Insert(_, _)
Insert(x, s) ==
  IF s = <<>> THEN <<x>>
  ELSE IF x <= Head(s) THEN <<x>> \o s
  ELSE <<Head(s)>> \o Insert(x, Tail(s))

RECURSIVE Sort(_)
Sort(s) == IF s = <<>> THEN <<>> ELSE Insert(Head(s), Sort(Tail(s)))

\* Vec::dedup: removes consecutive repeated elements
RECURSIVE Dedup(_)
Dedup(s) ==
  IF Len(s) <= 1 THEN s
  ELSE IF s[1] = s[2] THEN Dedup(Tail(s))
  ELSE <<s[1]>> \o Dedup(Tail(s))

----------------------------------------------------------------------------
\* Data model (git.rs lines 4-19)

RefInfo(name, kind) == [name |-> name, kind |-> kind]

CommitInfo(oid, parents, refs) == [oid |-> oid, parents |-> parents, refs |-> refs]

----------------------------------------------------------------------------
\* Ref index (git.rs lines 31-74)

Targets == 1..MaxTargets

\* Option<T> as a sequence of at most one element
None == <<>>
Some(x) == <<x>>

\* Full reference names, one per namespace git2 tells apart, and their
\* shorthands (Reference::shorthand)
RefNames == {"refs/remotes/origin/main", "refs/tags/v1", "refs/heads/main",
             "refs/notes/commits"}

is_remote(name) == name = "refs/remotes/origin/main"
is_tag(name) == name = "refs/tags/v1"
is_branch(name) == name = "refs/heads/main"

shorthand(name) ==
  CASE name = "refs/remotes/origin/main" -> "origin/main"
    [] name = "refs/tags/v1" -> "v1"
    [] name = "refs/heads/main" -> "main"
    [] OTHER -> "notes/commits"

\* One item of repo.references(): an Err, or a reference whose name() and
\* target() may each be None
RefItems ==
  {[ok |-> FALSE, name |-> None, target |-> None]}
  \cup {[ok |-> TRUE, name |-> None, target |-> None]}
  \cup {[ok |-> TRUE, name |-> Some(n), target |-> t] :
          n \in RefNames, t \in {None} \cup {Some(o) : o \in Targets}}

\* repo.head(): an Err, a HEAD without direct target, or a commit
HeadChoices ==
  {[ok |-> FALSE, target |-> None]}
  \cup {[ok |-> TRUE, target |-> t] : t \in {None} \cup {Some(o) : o \in Targets}}

\* lines 40-48
kind_of(name) ==
  IF is_remote(name) THEN "remote"
  ELSE IF is_tag(name) THEN "tag"
  ELSE IF is_branch(name) THEN "branch"
  ELSE "other"

\* ref_map.entry(target).or_default().push(info), lines 53 and 68
entry_push(map, target, info) ==
  IF target \in DOMAIN map
  THEN [map EXCEPT ![target] = Append(@, info)]
  ELSE [t \in DOMAIN map \cup {target} |-> IF t = target THEN <<info>> ELSE map[t]]

\* Variant of push_head: the HEAD annotation replaces the list (an insert in
\* place of entry().or_default().push())
push_head_replaces(map, target) ==
  [t \in DOMAIN map \cup {target} |->
     IF t = target THEN <<RefInfo("HEAD", "HEAD")>> ELSE map[t]]

\* lines 67-71: the HEAD annotation is pushed on the list of HEAD's target
push_head(map, target) == entry_push(map, target, RefInfo("HEAD", "HEAD"))

----------------------------------------------------------------------------
\* The windows the simplification is checked on.  The commit loaded at
\* position i has oid i; a parent id is any of 1..MaxLen+1, and an id above
\* the length the window ends with is a commit that was not loaded.  The
\* parents of one commit are distinct.  A revwalk of a real repository yields
\* every commit before its parents; up to MaxBack commits of a window may
\* break that by listing, as their only parent, themselves or an earlier
\* commit (self references, cycles, misordered windows): the malformed
\* histories the cycle guard is written for.

Oids == 1..(MaxLen + 1)

RefChoices == {<<>>, <<RefInfo("main", "branch")>>}

ParentLists ==
  {ps \in SeqsUpTo(Oids, MaxParents) :
     \A a, b \in 1..Len(ps) : a # b => ps[a] # ps[b]}

BackLinks(oid, ps) == Cardinality({k \in 1..Len(ps) : ps[k] <= oid})

RECURSIVE BackLinksOf(_)
BackLinksOf(w) ==
  IF w = <<>> THEN 0
  ELSE BackLinks(w[Len(w)].oid, w[Len(w)].parents) + BackLinksOf(SubSeq(w, 1, Len(w) - 1))

----------------------------------------------------------------------------
\* Graph simplification (git.rs lines 108-180)

\* lines 113-116: a later insert of the same oid overwrites an earlier one
commit_map_of(cs) ==
  [o \in {cs[k].oid : k \in 1..Len(cs)} |->
     LET last == CHOOSE k \in 1..Len(cs) :
                   cs[k].oid = o /\ \A j \in (k + 1)..Len(cs) : cs[j].oid # o
     IN cs[last]]

\* Variant of is_interesting: the root test is missing
is_interesting_no_root(commit) ==
  commit.refs # <<>> \/ Len(commit.parents) > 1

\* lines 122-126
is_interesting(commit) ==
  LET has_refs == commit.refs # <<>>
      is_merge == Len(commit.parents) > 1
      is_root == commit.parents = <<>>
  IN has_refs \/ is_merge \/ is_root

\* Variants of ancestor_is_interesting: the root test negated, the ref test
\* missing, the root test missing
ancestor_root_negated(ancestor) ==
  ancestor.refs # <<>> \/ Len(ancestor.parents) > 1 \/ ~(ancestor.parents = <<>>)

ancestor_ignores_refs(ancestor) ==
  Len(ancestor.parents) > 1 \/ ancestor.parents = <<>>

ancestor_ignores_root(ancestor) ==
  ancestor.refs # <<>> \/ Len(ancestor.parents) > 1

\* lines 140-144
ancestor_is_interesting(ancestor) ==
  LET ancestor_has_refs == ancestor.refs # <<>>
      ancestor_is_merge == Len(ancestor.parents) > 1
      ancestor_is_root == ancestor.parents = <<>>
  IN ancestor_has_refs \/ ancestor_is_merge \/ ancestor_is_root

\* The outcome of one walk: the ids it pushed on new_parents (none or one),
\* the seen-set when it stopped, the number of times the loop body was entered,
\* the break it left by, and the ids of the commits it stepped past.
WalkEnd(pushed, seen, iters, exit, skipped) ==
  [pushed |-> pushed, seen |-> seen, iters |-> iters, exit |-> exit, skipped |-> skipped]

\* Variant of cycle_protection: the repeated id is pushed as a parent
cycle_pushes_runner(runner, seen, iters, skipped) ==
  WalkEnd(<<runner>>, seen, iters, "cycle", skipped)

\* line 136: the runner was seen before
cycle_protection(runner, seen, iters, skipped) ==
  WalkEnd(<<>>, seen, iters, "cycle", skipped)

\* lines 135-162, entered with the runner, the seen-set and the count of loop
\* iterations so far
RECURSIVE Walk(_, _, _, _, _)
Walk(commit_map, runner, seen, iters, skipped) ==
  IF runner \in seen THEN cycle_protection(runner, seen, iters + 1, skipped)
  ELSE LET seen1 == seen \cup {runner} IN
    IF runner \in DOMAIN commit_map
    THEN LET ancestor == commit_map[runner] IN
      IF ancestor_is_interesting(ancestor)
      THEN WalkEnd(<<runner>>, seen1, iters + 1, "found", skipped)
      ELSE IF ancestor.parents # <<>>
           THEN Walk(commit_map, ancestor.parents[1], seen1, iters + 1,
                     Append(skipped, runner))
           ELSE WalkEnd(<<>>, seen1, iters + 1, "noparents", skipped)
    ELSE WalkEnd(<<runner>>, seen1, iters + 1, "stub", skipped)

\* Variant of walk_start: the walk starts at the commit itself
walk_start_at_commit(commit, k) == commit.oid

\* line 132: the walk for the k-th parent starts at that parent
walk_start(commit, k) == commit.parents[k]

\* lines 131-163: one walk per original parent, in order
walks_of(commit, commit_map) ==
  [k \in 1..Len(commit.parents) |->
     LET w == Walk(commit_map, walk_start(commit, k), {}, 0, <<>>)
     IN [commit |-> commit.oid, parent_oid |-> commit.parents[k],
         pushed |-> w.pushed, seen |-> w.seen, iters |-> w.iters,
         exit |-> w.exit, skipped |-> w.skipped]]

\* Variant of sort_dedup: the sort is missing
dedup_unsorted(new_parents) == Dedup(new_parents)

\* lines 165-166
sort_dedup(new_parents) == Dedup(Sort(new_parents))

\* lines 127-169: the commit pushed on simplified_commits for a kept commit
new_commit_of(commit, ws) ==
  [commit EXCEPT !.parents = sort_dedup(Concat([k \in 1..Len(ws) |-> ws[k].pushed]))]

\* lines 120-171: the loop over the window, from position k on
RECURSIVE simplify_from(_, _, _)
simplify_from(cs, commit_map, k) ==
  IF k > Len(cs) THEN [commits |-> <<>>, walks |-> <<>>]
  ELSE LET rest == simplify_from(cs, commit_map, k + 1) IN
    IF is_interesting(cs[k])
    THEN LET ws == walks_of(cs[k], commit_map) IN
         [commits |-> <<new_commit_of(cs[k], ws)>> \o rest.commits,
          walks |-> ws \o rest.walks]
    ELSE rest

\* Variant of returned: the fallback is missing
returned_simplified(simplified, all) == simplified

\* lines 175-179
returned(simplified, all) ==
  IF simplified = <<>> /\ all # <<>> THEN all ELSE simplified

----------------------------------------------------------------------------
\* Specification of the simplification: the revwalk loads the window commit
\* by commit, then lines 108-180 run on it.

Init ==
  /\ pc = "revwalk"
  /\ references = <<>>
  /\ head = [ok |-> FALSE, target |-> None]
  /\ ri = 0
  /\ ref_map = <<>>
  /\ relevant_oids = {}
  /\ all_commits = <<>>
  /\ simplified_commits = <<>>
  /\ walks = <<>>
  /\ result = <<>>

\* lines 87-106: the revwalk yields one more commit; the window is capped
revwalk_next ==
  /\ pc = "revwalk"
  /\ Len(all_commits) < MaxLen
  /\ LET oid == Len(all_commits) + 1
         back == BackLinksOf(all_commits)
     IN \E ps \in ParentLists, rs \in RefChoices :
          /\ back + BackLinks(oid, ps) <= MaxBack
          /\ BackLinks(oid, ps) > 0 => Len(ps) = 1
          /\ all_commits' = Append(all_commits, CommitInfo(oid, ps, rs))
  /\ UNCHANGED <<pc, references, head, ri, ref_map, relevant_oids,
                 simplified_commits, walks, result>>

\* lines 108-180, entered when the revwalk is exhausted or the cap is reached
simplify ==
  /\ pc = "revwalk"
  /\ \E s \in {simplify_from(all_commits, commit_map_of(all_commits), 1)} :
       /\ simplified_commits' = s.commits
       /\ walks' = s.walks
       /\ result' = returned(s.commits, all_commits)
  /\ pc' = "done"
  /\ UNCHANGED <<references, head, ri, ref_map, relevant_oids, all_commits>>

Next == revwalk_next \/ simplify

Spec == Init /\ [][Next]_vars

----------------------------------------------------------------------------
\* Specification of the ref index: the reference stream and HEAD are the
\* input, lines 35-74 consume them.

InitRefs ==
  /\ pc = "references"
  /\ references \in SeqsUpTo(RefItems, MaxRefs)
  /\ head \in HeadChoices
  /\ ri = 0
  /\ ref_map = <<>>
  /\ relevant_oids = {}
  /\ all_commits = <<>>
  /\ simplified_commits = <<>>
  /\ walks = <<>>
  /\ result = <<>>

\* lines 36-62: one iteration of the loop over the references
next_reference ==
  /\ pc = "references"
  /\ ri < Len(references)
  /\ LET r == references[ri + 1] IN
       IF r.ok /\ r.name # None /\ r.target # None
       THEN /\ ref_map' = entry_push(ref_map, r.target[1],
                                     RefInfo(shorthand(r.name[1]), kind_of(r.name[1])))
            /\ relevant_oids' = relevant_oids \cup {r.target[1]}
       ELSE UNCHANGED <<ref_map, relevant_oids>>
  /\ ri' = ri + 1
  /\ UNCHANGED <<pc, references, head, all_commits, simplified_commits, walks, result>>

\* lines 64-74
check_head ==
  /\ pc = "references"
  /\ ri = Len(references)
  /\ IF head.ok /\ head.target # None
     THEN /\ ref_map' = push_head(ref_map, head.target[1])
          /\ relevant_oids' = relevant_oids \cup {head.target[1]}
     ELSE UNCHANGED <<ref_map, relevant_oids>>
  /\ pc' = "indexed"
  /\ UNCHANGED <<references, head, ri, all_commits, simplified_commits, walks, result>>

NextRefs == next_reference \/ check_head

SpecRefs == InitRefs /\ [][NextRefs]_vars

----------------------------------------------------------------------------
\* Vocabulary of the properties, stated on the window and the output without
\* the operators of the algorithm.

Done == pc = "done"

WindowOids == {all_commits[k].oid : k \in 1..Len(all_commits)}

Loaded(o) == all_commits[CHOOSE k \in 1..Len(all_commits) : all_commits[k].oid = o]

\* Interestingness as the data model defines it
Interesting(c) == Len(c.refs) >= 1 \/ Len(c.parents) >= 2 \/ Len(c.parents) = 0

NoneInteresting == \A c \in Range(all_commits) : ~Interesting(c)

\* The case of lines 175-177
Fallback == Done /\ all_commits # <<>> /\ NoneInteresting

OutOids == {result[k].oid : k \in 1..Len(result)}

OriginalParents(o) == IF o \in WindowOids THEN Range(Loaded(o).parents) ELSE {}

RECURSIVE Closure(_, _)
Closure(S, k) ==
  IF k = 0 THEN S
  ELSE Closure(S \cup UNION {OriginalParents(o) : o \in S}, k - 1)

\* The ids reachable from o by one or more original parent links
Ancestors(o) == Closure(OriginalParents(o), Len(all_commits))

Acyclic == \A o \in WindowOids : o \notin Ancestors(o)

\* Every commit of the window appears before all of its loaded parents
TopoOrdered ==
  \A i, j \in 1..Len(all_commits) :
    all_commits[j].oid \in Range(all_commits[i].parents) => i < j

StrictlyAscending(s) == \A a, b \in 1..Len(s) : a < b => s[a] < s[b]

\* The first-parent chain that starts at p, as the sequence of its first n+1
\* ids (the chain stays at an id that is not loaded or has no parent)
RECURSIVE ChainFrom(_, _)
ChainFrom(p, n) ==
  IF n = 0 THEN <<p>>
  ELSE <<p>> \o ChainFrom(IF p \in WindowOids /\ Loaded(p).parents # <<>>
                          THEN Loaded(p).parents[1] ELSE p, n - 1)

StopsAt(o) == o \notin WindowOids \/ Interesting(Loaded(o))

HasNearest(p) ==
  LET ch == ChainFrom(p, Len(all_commits)) IN \E j \in 1..Len(ch) : StopsAt(ch[j])

\* The first id of the chain that is an interesting loaded commit or not loaded
Nearest(p) ==
  LET ch == ChainFrom(p, Len(all_commits))
      first == CHOOSE j \in 1..Len(ch) :
                 StopsAt(ch[j]) /\ \A i \in 1..(j - 1) : ~StopsAt(ch[i])
  IN ch[first]

\* A linear history loaded whole: commit i has the single parent i+1, the
\* last commit is the root, and only the newest commit carries a ref
LinearOnlyTipRef ==
  LET n == Len(all_commits) IN
    /\ n >= 2
    /\ \A i \in 1..(n - 1) : all_commits[i].parents = <<all_commits[i + 1].oid>>
    /\ all_commits[n].parents = <<>>
    /\ all_commits[1].refs # <<>>
    /\ \A i \in 2..n : all_commits[i].refs = <<>>

WalksOf(o) == {k \in 1..Len(walks) : walks[k].commit = o}

----------------------------------------------------------------------------
\* C1 (as claimed): in every window, also one without interesting commits, a
\* commit of the window is in the output iff it has a ref annotation, two or
\* more parents, or no parent.
C1_ClosureEveryWindow ==
  Done => \A c \in Range(all_commits) : (c.oid \in OutOids) <=> Interesting(c)

\* C1 (amended): in every window that is empty or holds at least one
\* interesting commit, a commit of the window is in the output iff it has a ref
\* annotation, two or more parents, or no parent, and the output holds no other
\* commit.
C1_InterestingnessClosure ==
  (Done /\ ~Fallback) =>
     /\ \A c \in Range(all_commits) : (c.oid \in OutOids) <=> Interesting(c)
     /\ OutOids \subseteq WindowOids
     /\ Len(result) = Cardinality(OutOids)

C1_Witness ==
  /\ Done
  /\ \E c, d \in Range(all_commits) :
       /\ Interesting(c) /\ c.oid \in OutOids
       /\ ~Interesting(d) /\ d.oid \notin OutOids

\* C2 (as claimed): in every window, the fallback included, an output parent
\* id is the id of an output commit or is absent from commit_map, and is never
\* the id of a loaded commit that is not interesting.
C2_NoDanglingEveryWindow ==
  Done => \A k \in 1..Len(result) : \A p \in Range(result[k].parents) :
            /\ p \in OutOids \/ p \notin WindowOids
            /\ ~(p \in WindowOids /\ ~Interesting(Loaded(p)))

\* C2 (amended): in every window an output parent id is the id of an output
\* commit or is absent from commit_map; unless the output is the fallback
\* (the whole window), it is never the id of a loaded commit that is not
\* interesting.
C2_NoDanglingEdges ==
  Done => \A k \in 1..Len(result) : \A p \in Range(result[k].parents) :
            /\ p \in OutOids \/ p \notin WindowOids
            /\ ~Fallback => ~(p \in WindowOids /\ ~Interesting(Loaded(p)))

C2_Witness ==
  /\ Done
  /\ ~Fallback
  /\ \E k \in 1..Len(walks) :
       /\ walks[k].skipped # <<>>
       /\ walks[k].pushed # <<>>
       /\ walks[k].pushed[1] \notin Range(Loaded(walks[k].commit).parents)

\* C3: the parent list of every output commit is sorted ascending without a
\* repeated id, and is no longer than the commit's original parent list.
C3_DedupAndOrder ==
  Done => \A k \in 1..Len(result) :
            /\ StrictlyAscending(result[k].parents)
            /\ Len(result[k].parents) <= Len(Loaded(result[k].oid).parents)

\* two different original parents of one kept commit resolve to the same id
C3_Witness ==
  /\ Done
  /\ \E a, b \in 1..Len(walks) :
       /\ a < b
       /\ walks[a].commit = walks[b].commit
       /\ walks[a].pushed # <<>>
       /\ walks[a].pushed = walks[b].pushed
       /\ \E k \in 1..Len(result) :
            result[k].oid = walks[a].commit /\ Len(result[k].parents) = 1

\* C4: a non-empty window without interesting commits is returned whole and
\* untouched, and the output of a non-empty window is never empty.
C4_NonEmptyFallback ==
  /\ Fallback => result = all_commits
  /\ (Done /\ all_commits # <<>>) => result # <<>>

C4_Witness == Fallback /\ Len(all_commits) >= 2 /\ result = all_commits

\* C5: every ancestor walk ends, after at most (size of its seen-set + 1) loop
\* iterations, and a walk that meets an id of its seen-set again stops without
\* adding a parent.
C5_WalkTermination ==
  Done => \A k \in 1..Len(walks) :
            /\ walks[k].iters <= Cardinality(walks[k].seen) + 1
            /\ walks[k].exit = "cycle" => walks[k].pushed = <<>>
            /\ walks[k].exit = "cycle" <=> walks[k].iters = Cardinality(walks[k].seen) + 1
            /\ walks[k].seen \subseteq Oids

\* a walk that ran round a cycle of two commits that are not interesting
C5_Witness ==
  /\ Done
  /\ \E k \in 1..Len(walks) :
       /\ walks[k].exit = "cycle"
       /\ Cardinality(walks[k].seen) >= 2
       /\ walks[k].iters = 3

\* C6: no output commit has its own id in its output parent list, whether the
\* commit that lists itself as a parent is interesting or not.
C6_SelfEdgeDropped ==
  Done => \A k \in 1..Len(result) : result[k].oid \notin Range(result[k].parents)

\* C7: in a topologically ordered window, every output parent id that is the
\* id of an output commit names a commit strictly later in the output and
\* reachable from the child by original parent links.
C7_NoCycleAncestryPreserved ==
  (Done /\ TopoOrdered) =>
     \A k \in 1..Len(result) : \A p \in Range(result[k].parents) :
        p \in OutOids =>
          /\ \E j \in (k + 1)..Len(result) : result[j].oid = p
          /\ \A j \in 1..k : result[j].oid # p
          /\ p \in Ancestors(result[k].oid)

\* an edge of the output that was re-linked across a skipped commit
C7_Witness ==
  /\ Done
  /\ TopoOrdered
  /\ \E k \in 1..Len(result) : \E p \in Range(result[k].parents) :
       /\ p \in OutOids
       /\ p \notin Range(Loaded(result[k].oid).parents)

\* C9: in an acyclic window, each original parent p of a kept commit
\* contributes the first id of p's first-parent chain that is an interesting
\* loaded commit or is not loaded; a linear history of n >= 2 commits whose
\* newest commit alone carries a ref yields the tip and the root, the tip's
\* parent list being the root id.
C9_NearestInterestingAncestor ==
  (Done /\ Acyclic) =>
     /\ \A k \in 1..Len(walks) :
          /\ HasNearest(walks[k].parent_oid)
          /\ walks[k].pushed = <<Nearest(walks[k].parent_oid)>>
     /\ \A k \in 1..Len(simplified_commits) :
          LET c == simplified_commits[k] IN
            /\ Interesting(Loaded(c.oid))
            /\ Range(c.parents) = {Nearest(p) : p \in Range(Loaded(c.oid).parents)}
     /\ LinearOnlyTipRef =>
          LET n == Len(all_commits) IN
            result = <<[all_commits[1] EXCEPT !.parents = <<all_commits[n].oid>>],
                       all_commits[n]>>

\* the linear history of three commits, collapsed to tip and root
C9_Witness ==
  /\ Done
  /\ LinearOnlyTipRef
  /\ Len(all_commits) >= 3
  /\ Len(result) = 2
  /\ result[1].parents = <<all_commits[Len(all_commits)].oid>>

\* C10: every commit a walk steps past has exactly one parent, no walk leaves
\* by the 'no parents' break, a walk that adds no parent left by the cycle
\* guard, and in an acyclic window every kept commit with an original parent
\* has a non-empty output parent list.
C10_SkippedHaveOneParent ==
  Done =>
     /\ \A k \in 1..Len(walks) :
          /\ \A i \in 1..Len(walks[k].skipped) :
               /\ walks[k].skipped[i] \in WindowOids
               /\ Len(Loaded(walks[k].skipped[i]).parents) = 1
          /\ walks[k].exit # "noparents"
          /\ walks[k].pushed = <<>> => walks[k].exit = "cycle"
     /\ Acyclic =>
          \A k \in 1..Len(simplified_commits) :
             Loaded(simplified_commits[k].oid).parents # <<>>
               => simplified_commits[k].parents # <<>>

\* a walk of an acyclic window that stepped past a commit and reached a root
C10_Witness ==
  /\ Done
  /\ Acyclic
  /\ \E k \in 1..Len(walks) :
       /\ Len(walks[k].skipped) >= 1
       /\ walks[k].exit = "found"
       /\ Loaded(walks[k].pushed[1]).parents = <<>>

----------------------------------------------------------------------------
\* Vocabulary of the ref index property

Indexed == pc = "indexed"

HeadTarget == IF head.ok /\ head.target # None THEN head.target ELSE None

\* The annotation the classification policy gives a reference name
ExpectedAnnotation(name) ==
  CASE name = "refs/remotes/origin/main" -> [name |-> "origin/main", kind |-> "remote"]
    [] name = "refs/tags/v1" -> [name |-> "v1", kind |-> "tag"]
    [] name = "refs/heads/main" -> [name |-> "main", kind |-> "branch"]
    [] name = "refs/notes/commits" -> [name |-> "notes/commits", kind |-> "other"]

\* The annotations the first n references of the stream produce for t, in
\* discovery order
RECURSIVE StreamAnnotations(_, _)
StreamAnnotations(t, n) ==
  IF n = 0 THEN <<>>
  ELSE LET r == references[n] IN
       IF r.ok /\ r.name # None /\ r.target = Some(t)
       THEN Append(StreamAnnotations(t, n - 1), ExpectedAnnotation(r.name[1]))
       ELSE StreamAnnotations(t, n - 1)

Annotations(t) == IF t \in DOMAIN ref_map THEN ref_map[t] ELSE <<>>

HeadAnnotation == [name |-> "HEAD", kind |-> "HEAD"]

\* C8: after ref indexing, the list of HEAD's target holds every annotation
\* the reference stream produced for it, in discovery order and with repeats
\* kept, followed by one HEAD annotation; every other list is what the stream
\* produced; when HEAD does not resolve no HEAD annotation exists.
C8_HeadAnnotation ==
  Indexed =>
     \A t \in Targets :
        /\ Annotations(t) =
             StreamAnnotations(t, Len(references))
               \o (IF HeadTarget = Some(t) THEN <<HeadAnnotation>> ELSE <<>>)
        /\ t \in relevant_oids <=> Annotations(t) # <<>>
        /\ t \in DOMAIN ref_map <=> Annotations(t) # <<>>

\* HEAD on a commit that two references of the stream annotate alike
C8_Witness ==
  /\ Indexed
  /\ \E t \in Targets :
       /\ HeadTarget = Some(t)
       /\ Len(ref_map[t]) = 3
       /\ ref_map[t][1] = ref_map[t][2]
       /\ ref_map[t][3] = HeadAnnotation
       /\ \E u \in Targets \ {t} : u \notin DOMAIN ref_map

====
